---------------------------- MODULE Spec2Model ----------------------------
(***************************************************************************)
(* Model of audio_segment_downloader.py: the orchestration function        *)
(* download_audio_segment (makedirs -> yt-dlp download -> ffmpeg trim ->   *)
(* os.remove -> return) and its two front ends, cli() and the Flask route  *)
(* /download.  Several requests may be in flight at once (one worker per   *)
(* Flask thread or per command-line process); they share the working       *)
(* directory, hence the fixed intermediate path and the output paths.      *)
(* Every external call (makedirs, download, ffmpeg, remove, send_file) is  *)
(* one atomic step.  The collaborators are modelled by their interface:    *)
(* the download either writes the whole audio to the intermediate path     *)
(* (replacing what is there) or raises without writing; ffmpeg either      *)
(* writes the output and exits 0 or exits non-zero without writing.        *)
(***************************************************************************)
EXTENDS Integers, Sequences, FiniteSets, TLC

\* Number of requests / invocations a behaviour may start in total.
MaxReq == 2

Workers == {"w1", "w2"}
Urls == {"https://a", "https://b"}
\* (start, end) marker pairs: start before end, and start after end
Ranges == {<<"00:00:10", "00:00:20">>, <<"00:00:20", "00:00:10">>}
OutNames == {"output.mp3", "clip.mp3"}

\* request.args.get(k) of an absent key; "" is a key given with no value.
None == "<None>"
Empty == ""

\* Files of the working directory.
NoFile == [kind |-> "none"]
\* Other paths under temp/: the code names none of them (they are what a
\* per-run intermediate path would name).
ScratchPaths == {"temp/w1.mp3", "temp/w2.mp3"}
Paths == {"temp/full_audio.mp3"} \cup ScratchPaths \cup OutNames

NoErr == "none"
NoRun == [surface |-> "none", id |-> 0, url |-> None, start |-> None, end |-> None,
          output |-> None]
\* trimExit: exit status of the Trimmer (-1: not run); trimSrc: the request whose
\* fetch wrote the file the Trimmer was given (0: no file there, -1: not run).
NoHist == [err |-> NoErr, ret |-> None, trimExit |-> -1, trimSrc |-> -1,
           solo |-> TRUE, prevSame |-> FALSE]
NoResp == [status |-> 0, exit |-> -1, body |-> "", file |-> NoFile]

VARIABLES
    fs,        \* [Paths -> file content or NoFile]
    tempDir,   \* whether the directory "temp" exists
    pc,        \* [Workers -> position of the worker's request]
    run,       \* [Workers -> arguments of the worker's current/last request]
    hist,      \* [Workers -> what that request has observed and produced]
    steps,     \* [Workers -> sequence of orchestrator steps attempted]
    resp,      \* [Workers -> answer given to that request]
    nreq,      \* requests started so far
    last       \* the worker whose orchestrator run finished most recently

vars == <<fs, tempDir, pc, run, hist, steps, resp, nreq, last>>

----------------------------------------------------------------------------
\* Pure helpers

\* Python truthiness of a query parameter value (None and "" are falsy).
Truthy(v) == v /= None /\ v /= Empty

\* variant: any() in place of all()
all_any(u, s, e) == Truthy(u) \/ Truthy(s) \/ Truthy(e)
\* all([video_url, start_time, end_time])
all(u, s, e) == Truthy(u) /\ Truthy(s) /\ Truthy(e)

\* variant: an intermediate path of the run's own
temp_file_unique(w) == IF w = "w1" THEN "temp/w1.mp3" ELSE "temp/w2.mp3"
\* temp_file = os.path.join("temp", "full_audio.mp3"): the same for every run
temp_file(w) == "temp/full_audio.mp3"

\* ffmpeg's reading of a clock-time marker, in seconds
Seconds(t) == CASE t = "00:00:10" -> 10
                [] t = "00:00:20" -> 20
                [] OTHER -> -1

\* Exit status of  ffmpeg -i input -ss start -to end -c:a copy output  (no -y):
\* non-zero when the input cannot be opened, when a marker does not parse or
\* -to is not after -ss, and when the output exists and overwriting it is
\* not confirmed on stdin.
ffmpeg_exit(input, start, end, outExists, confirm) ==
    IF input.kind = "none" THEN 1
    ELSE IF Seconds(start) < 0 \/ Seconds(end) < 0 THEN 1
    ELSE IF ~(Seconds(start) < Seconds(end)) THEN 1
    ELSE IF outExists /\ ~confirm THEN 1
    ELSE 0

\* variant: check=False, the exit status is ignored
check_off(code) == FALSE
\* subprocess.run(cmd, check=True): raise CalledProcessError on non-zero exit
check(code) == code /= 0

\* variant: the failed step is attempted again
raise_retry(step) == step
\* an exception leaves download_audio_segment: no handler, no retry
raise(step) == "failed"

\* variant: the intermediate file is removed when a step fails
raise_fs_cleanup(f, w) == [f EXCEPT ![temp_file(w)] = NoFile]
\* files after an exception left download_audio_segment: nothing is cleaned up
raise_fs(f, w) == f

\* variant: an existing file is kept, not rewritten
write_keep(f, path, content) == IF f[path] = NoFile THEN [f EXCEPT ![path] = content] ELSE f
\* the Fetcher / Trimmer (re)writes the file at path
write(f, path, content) == [f EXCEPT ![path] = content]

\* variant: the file is not removed
remove_keep(f, path) == f
\* os.remove(path) of an existing file
remove(f, path) == [f EXCEPT ![path] = NoFile]

\* variant: the file is removed once sent
send_file_unlink(f, path) == [f EXCEPT ![path] = NoFile]
\* files after send_file(output_file, as_attachment=True): the file is left in place
send_file_fs(f, path) == f

\* the request whose fetch wrote the file (0: there is no file)
Writer(file) == IF file.kind = "none" THEN 0 ELSE file.req

\* what the Fetcher writes for worker w's request: the whole audio of its url
FullAsset(w) == [kind |-> "full", url |-> run[w].url, req |-> run[w].id]

\* what the Trimmer writes for worker w's request when given the file input
Segment(w, input) == [kind |-> "seg", url |-> input.url, start |-> run[w].start,
                      end |-> run[w].end, src |-> input.req, req |-> run[w].id]

Idle(w) == pc[w] \in {"idle", "done"}
AllIdle == \A v \in Workers : Idle(v)
Others(w) == Workers \ {w}

----------------------------------------------------------------------------
Init ==
    /\ fs = [p \in Paths |-> NoFile]
    /\ tempDir = FALSE
    /\ pc = [w \in Workers |-> "idle"]
    /\ run = [w \in Workers |-> NoRun]
    /\ hist = [w \in Workers |-> NoHist]
    /\ steps = [w \in Workers |-> <<>>]
    /\ resp = [w \in Workers |-> NoResp]
    /\ nreq = 0
    /\ last = "none"

\* The run worker v finished was a command-line invocation with these arguments
\* that no other run overlapped and that printed its output path.
SameSucceeded(v, u, s, e, o) ==
    /\ run[v] = [run[v] EXCEPT !.surface = "cli", !.url = u, !.start = s, !.end = e,
                               !.output = o]
    /\ hist[v].solo
    /\ resp[v].exit = 0

\* A run of download_audio_segment starts on worker w: every other run is no
\* longer alone, and w's run is alone iff nobody else is in flight.
Begin(w, surface, u, s, e, o) ==
    /\ pc' = [pc EXCEPT ![w] = "mkdir"]
    /\ run' = [run EXCEPT ![w] = [surface |-> surface, id |-> nreq + 1, url |-> u,
                                  start |-> s, end |-> e, output |-> o]]
    /\ hist' = [v \in Workers |->
                  IF v = w
                  THEN [NoHist EXCEPT
                          !.solo = \A x \in Others(w) : Idle(x),
                          !.prevSame = /\ \A x \in Others(w) : Idle(x)
                                       /\ surface = "cli"
                                       /\ last \in Workers
                                       /\ SameSucceeded(last, u, s, e, o)]
                  ELSE [hist[v] EXCEPT !.solo = FALSE]]
    /\ steps' = [steps EXCEPT ![w] = <<>>]
    /\ resp' = [resp EXCEPT ![w] = NoResp]
    /\ nreq' = nreq + 1
    /\ UNCHANGED <<fs, tempDir, last>>

\* GET /download with query parameters u, s, e (None when absent)
download_endpoint(w, u, s, e) ==
    /\ Idle(w)
    /\ nreq < MaxReq
    /\ IF ~all(u, s, e)
       THEN /\ pc' = [pc EXCEPT ![w] = "done"]
            /\ run' = [run EXCEPT ![w] = [surface |-> "http", id |-> nreq + 1, url |-> u,
                                          start |-> s, end |-> e, output |-> None]]
            /\ hist' = [hist EXCEPT ![w] = NoHist]
            /\ steps' = [steps EXCEPT ![w] = <<>>]
            /\ resp' = [resp EXCEPT ![w] =
                          [status |-> 400, exit |-> -1,
                           body |-> "Missing parameters. Required: url, start, end",
                           file |-> NoFile]]
            /\ nreq' = nreq + 1
            /\ UNCHANGED <<fs, tempDir, last>>
       ELSE Begin(w, "http", u, s, e, "output.mp3")

\* command line: url start_time end_time [-o output]
cli(w, u, s, e, o) ==
    /\ Idle(w)
    /\ nreq < MaxReq
    /\ Begin(w, "cli", u, s, e, o)

\* os.makedirs("temp", exist_ok=True)
makedirs(w) ==
    /\ pc[w] = "mkdir"
    /\ tempDir' = TRUE
    /\ pc' = [pc EXCEPT ![w] = "fetch"]
    /\ steps' = [steps EXCEPT ![w] = Append(@, "mkdir")]
    /\ UNCHANGED <<fs, run, hist, resp, nreq, last>>

\* with yt_dlp.YoutubeDL(ydl_opts) as ydl: ydl.download([video_url])
ydl_download(w) ==
    /\ pc[w] = "fetch"
    /\ steps' = [steps EXCEPT ![w] = Append(@, "fetch")]
    /\ \E ok \in BOOLEAN :
         IF ok
         THEN /\ fs' = write(fs, temp_file(w), FullAsset(w))
              /\ pc' = [pc EXCEPT ![w] = "trim"]
              /\ hist' = hist
         ELSE /\ fs' = raise_fs(fs, w)
              /\ pc' = [pc EXCEPT ![w] = raise("fetch")]
              /\ hist' = [hist EXCEPT ![w].err = "DownloadError"]
    /\ UNCHANGED <<tempDir, run, resp, nreq, last>>

\* subprocess.run(['ffmpeg', '-i', temp_file, '-ss', start, '-to', end,
\*                 '-c:a', 'copy', output_file], check=True)
subprocess_run(w) ==
    /\ pc[w] = "trim"
    /\ steps' = [steps EXCEPT ![w] = Append(@, "trim")]
    /\ \E confirm \in BOOLEAN :
         LET input == fs[temp_file(w)]
             out == run[w].output
             code == ffmpeg_exit(input, run[w].start, run[w].end, fs[out] /= NoFile, confirm)
             written == IF code = 0
                        THEN write(fs, out, Segment(w, input))
                        ELSE fs
         IN  IF check(code)
             THEN /\ fs' = raise_fs(written, w)
                  /\ pc' = [pc EXCEPT ![w] = raise("trim")]
                  /\ hist' = [hist EXCEPT ![w].err = "CalledProcessError",
                                          ![w].trimExit = code,
                                          ![w].trimSrc = Writer(input)]
             ELSE /\ fs' = written
                  /\ pc' = [pc EXCEPT ![w] = "delete"]
                  /\ hist' = [hist EXCEPT ![w].trimExit = code,
                                          ![w].trimSrc = Writer(input)]
    /\ UNCHANGED <<tempDir, run, resp, nreq, last>>

\* os.remove(temp_file); return output_file
os_remove(w) ==
    /\ pc[w] = "delete"
    /\ steps' = [steps EXCEPT ![w] = Append(@, "delete")]
    /\ IF fs[temp_file(w)] /= NoFile
       THEN /\ fs' = remove(fs, temp_file(w))
            /\ pc' = [pc EXCEPT ![w] = "returned"]
            /\ hist' = [hist EXCEPT ![w].ret = run[w].output]
       ELSE /\ fs' = raise_fs(fs, w)
            /\ pc' = [pc EXCEPT ![w] = raise("delete")]
            /\ hist' = [hist EXCEPT ![w].err = "FileNotFoundError"]
    /\ UNCHANGED <<tempDir, run, resp, nreq, last>>

\* return send_file(output_file, as_attachment=True)
send_file(w) ==
    /\ pc[w] = "returned"
    /\ run[w].surface = "http"
    /\ IF fs[hist[w].ret] /= NoFile
       THEN /\ resp' = [resp EXCEPT ![w] = [status |-> 200, exit |-> -1, body |-> "",
                                            file |-> fs[hist[w].ret]]]
            /\ fs' = send_file_fs(fs, hist[w].ret)
            /\ last' = w
       ELSE /\ resp' = [resp EXCEPT ![w] = [status |-> 500, exit |-> -1,
                                            body |-> "FileNotFoundError", file |-> NoFile]]
            /\ fs' = fs
            /\ last' = w
    /\ pc' = [pc EXCEPT ![w] = "done"]
    /\ UNCHANGED <<tempDir, run, hist, steps, nreq>>

\* except Exception as e: return jsonify({"error": str(e)}), 500
download_except(w) ==
    /\ pc[w] = "failed"
    /\ run[w].surface = "http"
    /\ resp' = [resp EXCEPT ![w] = [status |-> 500, exit |-> -1, body |-> hist[w].err,
                                    file |-> NoFile]]
    /\ last' = w
    /\ pc' = [pc EXCEPT ![w] = "done"]
    /\ UNCHANGED <<fs, tempDir, run, hist, steps, nreq>>

\* print(f"Audio segment downloaded to {output_file}")
cli_print(w) ==
    /\ pc[w] = "returned"
    /\ run[w].surface = "cli"
    /\ resp' = [resp EXCEPT ![w] = [status |-> 0, exit |-> 0, body |-> hist[w].ret,
                                    file |-> NoFile]]
    /\ last' = w
    /\ pc' = [pc EXCEPT ![w] = "done"]
    /\ UNCHANGED <<fs, tempDir, run, hist, steps, nreq>>

\* the exception leaves cli(): traceback, exit status 1
cli_abort(w) ==
    /\ pc[w] = "failed"
    /\ run[w].surface = "cli"
    /\ resp' = [resp EXCEPT ![w] = [status |-> 0, exit |-> 1, body |-> hist[w].err,
                                    file |-> NoFile]]
    /\ last' = w
    /\ pc' = [pc EXCEPT ![w] = "done"]
    /\ UNCHANGED <<fs, tempDir, run, hist, steps, nreq>>

\* Query strings of GET /download: complete ones, and ones with a parameter
\* absent or empty.
Queries ==
    {<<u, r[1], r[2]>> : u \in Urls, r \in Ranges}
    \cup {<<None, "00:00:10", "00:00:20">>, <<Empty, "00:00:10", "00:00:20">>,
          <<"https://a", None, "00:00:20">>, <<"https://a", "00:00:10", None>>,
          <<None, None, None>>}

Arrive(w) ==
    \/ \E q \in Queries : download_endpoint(w, q[1], q[2], q[3])
    \/ \E u \in Urls, r \in Ranges, o \in OutNames : cli(w, u, r[1], r[2], o)

Step(w) ==
    \/ makedirs(w)
    \/ ydl_download(w)
    \/ subprocess_run(w)
    \/ os_remove(w)
    \/ send_file(w)
    \/ download_except(w)
    \/ cli_print(w)
    \/ cli_abort(w)

\* Requests may overlap (threaded server, several command-line processes).
Next == \E w \in Workers : Arrive(w) \/ Step(w)

Spec == Init /\ [][Next]_vars

\* Requests are processed strictly one at a time.
NextSeq == \E w \in Workers : (AllIdle /\ Arrive(w)) \/ Step(w)

SpecSeq == Init /\ [][NextSeq]_vars

----------------------------------------------------------------------------
\* Claims

OwnSegment(w) == [kind |-> "seg", url |-> run[w].url, start |-> run[w].start,
                  end |-> run[w].end, src |-> run[w].id, req |-> run[w].id]
Attempted(w, step) == \E i \in 1..Len(steps[w]) : steps[w][i] = step
Pipeline == <<"mkdir", "fetch", "trim", "delete">>
AbsentParam(w) == run[w].url = None \/ run[w].start = None \/ run[w].end = None

\* C1: a GET /download request with url, start or end absent is answered 400 with
\* the body "Missing parameters. Required: url, start, end", and the step that
\* answers it invokes no orchestrator step and leaves the directory and every
\* file as they were.
C1_MissingParams400 ==
    /\ [](\A w \in Workers :
            (run[w].surface = "http" /\ AbsentParam(w)) =>
                /\ resp[w] = [status |-> 400, exit |-> -1,
                              body |-> "Missing parameters. Required: url, start, end",
                              file |-> NoFile]
                /\ pc[w] = "done"
                /\ steps[w] = <<>>
                /\ hist[w].trimExit = -1
                /\ hist[w].ret = None)
    /\ [][\A w \in Workers :
            (run'[w] /= run[w] /\ run'[w].surface = "http"
             /\ (run'[w].url = None \/ run'[w].start = None \/ run'[w].end = None))
            => (fs' = fs /\ tempDir' = tempDir)]_vars

\* C1 witness: a 400 was answered while an output file of an earlier request exists.
C1_Witness ==
    \E w \in Workers :
        /\ resp[w].status = 400
        /\ run[w].start = None
        /\ run[w].url \in Urls
        /\ fs["output.mp3"] /= NoFile

\* C2: a run whose Trimmer exited non-zero returns no output path and is never
\* answered 200; once the HTTP route has answered it, the answer is 500.
C2_TrimFailure500 ==
    \A w \in Workers :
        hist[w].trimExit > 0 =>
            /\ hist[w].ret = None
            /\ pc[w] \in {"failed", "done"}
            /\ resp[w].status /= 200
            /\ resp[w].file = NoFile
            /\ (pc[w] = "done" /\ run[w].surface = "http") => resp[w].status = 500

C2_Witness ==
    \E w \in Workers :
        /\ run[w].surface = "http"
        /\ hist[w].trimExit > 0
        /\ resp[w].status = 500
        /\ fs["output.mp3"] /= NoFile

\* C3 (as claimed): once the delete step has been attempted the run reports no error
\* and returns output_path, whether or not the delete succeeded.
C3_DeleteBestEffort ==
    \A w \in Workers :
        Attempted(w, "delete") =>
            /\ hist[w].err = NoErr
            /\ hist[w].ret = run[w].output

\* C4: the intermediate path is shared by all runs: while a run v waits at its trim
\* step, another run's successful fetch replaces the file v is about to read by
\* that other run's asset, and another run's cleanup removes it.
C4_SharedIntermediate ==
    [][\A w \in Workers, v \in Workers :
          (w /= v /\ pc[v] = "trim" /\ pc'[v] = "trim") =>
              /\ (pc[w] = "fetch" /\ pc'[w] = "trim") => fs'[temp_file(v)] = FullAsset(w)
              /\ (pc[w] = "delete" /\ pc'[w] = "returned") => fs'[temp_file(v)] = NoFile]_vars

\* C4 witness: one run's trim read the file the other run's fetch wrote, then its
\* cleanup deleted the file, and the other run's trim found no file.
C4_Witness ==
    \E w \in Workers, v \in Workers :
        /\ w /= v
        /\ hist[w].trimSrc = run[v].id
        /\ hist[w].ret /= None
        /\ Attempted(v, "fetch")
        /\ hist[v].trimSrc = 0
        /\ hist[v].err = "CalledProcessError"

\* C5: when a run that no other run overlaps returns, it has done exactly
\* mkdir, fetch, trim, delete in that order; the working directory exists, the
\* intermediate file does not, the output file does, and the value returned is
\* the output path passed in.
C5_SuccessfulRun ==
    \A w \in Workers :
        (pc[w] = "returned" /\ hist[w].solo) =>
            /\ steps[w] = Pipeline
            /\ tempDir
            /\ fs[temp_file(w)] = NoFile
            /\ fs[run[w].output] = OwnSegment(w)
            /\ hist[w].ret = run[w].output
            /\ hist[w].err = NoErr

C5_Witness ==
    \E w \in Workers :
        /\ pc[w] = "returned"
        /\ hist[w].solo
        /\ run[w].surface = "cli"
        /\ run[w].output = "clip.mp3"
        /\ hist[w].ret = "clip.mp3"

\* C6 (as claimed): a command-line invocation that repeats the arguments of the
\* invocation finished just before it (which succeeded, nothing else having run
\* since), and whose source asset is still fetched, succeeds as well and leaves
\* the segment of its arguments at the output path.
C6_RepeatSucceeds ==
    \A w \in Workers :
        (pc[w] = "done" /\ hist[w].prevSame /\ hist[w].solo
         /\ hist[w].err /= "DownloadError") =>
            /\ resp[w].exit = 0
            /\ fs[run[w].output].kind = "seg"
            /\ fs[run[w].output].url = run[w].url
            /\ fs[run[w].output].start = run[w].start
            /\ fs[run[w].output].end = run[w].end

\* C7: the steps a run attempts are a prefix of mkdir, fetch, trim, delete (each at
\* most once); a run whose fetch failed attempted nothing after the fetch, and a
\* run whose trim failed attempted nothing after the trim.
C7_AbortNoRetry ==
    \A w \in Workers :
        /\ Len(steps[w]) <= Len(Pipeline)
        /\ steps[w] = SubSeq(Pipeline, 1, Len(steps[w]))
        /\ hist[w].err = "DownloadError" =>
              (steps[w] = <<"mkdir", "fetch">> /\ hist[w].trimExit = -1
               /\ pc[w] \in {"failed", "done"})
        /\ hist[w].err = "CalledProcessError" =>
              (steps[w] = <<"mkdir", "fetch", "trim">> /\ pc[w] \in {"failed", "done"})

C7_Witness ==
    \E w \in Workers, v \in Workers :
        /\ hist[w].err = "DownloadError"
        /\ pc[w] = "done"
        /\ hist[v].err = "CalledProcessError"
        /\ pc[v] = "done"

\* C8: a failing trim step, a failing fetch step and the propagation of either
\* failure to the caller leave the intermediate path as it was; so after the trim
\* of a run that no other run overlaps has failed, the file its fetch wrote is
\* still there.
C8_NoCleanupOnFailure ==
    /\ [](\A w \in Workers :
            (hist[w].err = "CalledProcessError" /\ hist[w].solo) =>
                fs[temp_file(w)] = FullAsset(w))
    /\ [][\A w \in Workers :
            (pc[w] \in {"fetch", "trim", "failed"} /\ pc'[w] \in {"failed", "done"}
             /\ pc'[w] /= pc[w])
            => fs'[temp_file(w)] = fs[temp_file(w)]]_vars

C8_Witness ==
    \E w \in Workers :
        /\ hist[w].err = "CalledProcessError"
        /\ hist[w].solo
        /\ pc[w] = "done"
        /\ fs[temp_file(w)] = FullAsset(w)

\* C9: after the HTTP route answered 200 the file output.mp3 exists, and after the
\* command line printed a path the file at that path exists, until that worker's
\* next request and so also while another request starts.
C9_OutputKept ==
    \A w \in Workers :
        /\ resp[w].status = 200 =>
              (run[w].output = "output.mp3" /\ fs["output.mp3"] /= NoFile)
        /\ resp[w].exit = 0 =>
              (resp[w].body = run[w].output /\ fs[run[w].output] /= NoFile)

C9_Witness ==
    \E w \in Workers, v \in Workers :
        /\ resp[w].status = 200
        /\ pc[v] = "mkdir"
        /\ run[v].id > run[w].id
        /\ fs["output.mp3"] /= NoFile

\* C10: with requests processed one at a time, the file a 200 response carries was
\* written by that request's trim, from the asset that request's fetch wrote for
\* that request's url, with that request's markers.
C10_OwnSegmentServed ==
    \A w \in Workers :
        resp[w].status = 200 =>
            /\ resp[w].file = OwnSegment(w)
            /\ hist[w].trimSrc = run[w].id

\* C10 witness: a 200 for a request that followed a request whose trim failed and
\* left its intermediate file (for another url) behind.
C10_Witness ==
    \E w \in Workers, v \in Workers :
        /\ resp[w].status = 200
        /\ run[v].id < run[w].id
        /\ hist[v].err = "CalledProcessError"
        /\ hist[v].trimSrc = run[v].id
        /\ run[v].url /= run[w].url

=============================================================================
